---- MODULE Spec2Model ----
(***************************************************************************)
(* TreeProjection.py: batch projection of LAS/LAZ point clouds to density  *)
(* images.  The module models                                              *)
(*   - the command line block, main (validation, discovery, Pool.map,      *)
(*     summary) and the worker processes running process_file_wrapper /    *)
(*     process_tree (specification Spec, FairSpec; DiscSpec for the        *)
(*     discovery alone);                                                   *)
(*   - the numeric core of one loop iteration of process_tree (extent,     *)
(*     xpx, pd, np.arange bin edges, np.histogram2d) over a small binary   *)
(*     floating-point format (specification NumSpec).                      *)
(***************************************************************************)
EXTENDS Integers, Sequences, FiniteSets, TLC

\* ------------------------------------------------------------------ bounds
MaxEntries == 3      \* directory entries in the input tree, for discovery
MaxTasks == 2        \* point-cloud files in the input tree, for a whole run
MaxWorkers == 2      \* cpu_count() of the host; n_workers below it are given

MaxPoints == 3       \* points of a projected point set
Prec == 7            \* significand bits of the floating-point format
FracBits == 6        \* the unit 1.0 is 2^FracBits quanta (gradual underflow below)

\* ------------------------------------------------------- program constants
Angles == <<0, 45, 90, 135>>

\* ------------------------------------------------- floating-point numbers
\* A finite float is an integer number of quanta (1.0 = Unit quanta) with at
\* most Prec significant bits; every operation rounds its exact result to the
\* nearest such number, ties to the even significand, as IEEE 754 does for
\* float64 (Prec = 53).  Division also yields inf and nan: numpy divides by
\* zero with a warning, not an exception.
RECURSIVE Pow2(_)
Pow2(k) == IF k = 0 THEN 1 ELSE 2 * Pow2(k - 1)

Unit == Pow2(FracBits)

RECURSIVE Expo(_, _, _)
Expo(n, d, k) == IF n < d * Pow2(Prec + k) THEN k ELSE Expo(n, d, k + 1)

\* nearest integer to n/d (n >= 0, d > 0), ties to even
RoundHalfEven(n, d) ==
    LET m == n \div d
        r == n - m * d
    IN  IF 2 * r > d \/ (2 * r = d /\ m % 2 = 1) THEN m + 1 ELSE m

\* the float nearest to the rational n/d quanta (n >= 0, d > 0)
Rnd(n, d) ==
    IF n = 0 THEN 0
    ELSE LET u == Pow2(Expo(n, d, 0)) IN RoundHalfEven(n, d * u) * u

RndZ(z) == IF z < 0 THEN 0 - Rnd(0 - z, 1) ELSE Rnd(z, 1)

Representable(z) == RndZ(z) = z

fadd(a, b) == RndZ(a + b)
fsub(a, b) == RndZ(a - b)
fmul(a, b) == Rnd(a * b, Unit)          \* a, b >= 0

Fin(v) == [k |-> "fin", v |-> v]
Inf == [k |-> "inf", v |-> 0]
NaN == [k |-> "nan", v |-> 0]

\* a / b for a, b >= 0, inf or nan
fdiv(a, b) ==
    CASE a.k = "nan" \/ b.k = "nan" -> NaN
      [] a.k = "inf" -> IF b.k = "inf" THEN NaN ELSE Inf
      [] b.k = "inf" -> Fin(0)
      [] b.v = 0 -> IF a.v = 0 THEN NaN ELSE Inf
      [] OTHER -> Fin(Rnd(a.v * Unit, b.v))

\* floor of the square root of the natural number v
\* (built bit by bit from 2^14 down: v < 2^30)
RECURSIVE ISqrtBits(_, _, _)
ISqrtBits(v, m, b) ==
    IF b = 0 THEN m
    ELSE ISqrtBits(v, IF (m + b) * (m + b) <= v THEN m + b ELSE m, b \div 2)

ISqrt(v) == ISqrtBits(v, 0, Pow2(14))

RECURSIVE SqrtExpo(_, _)
SqrtExpo(v, k) ==
    IF v < Pow2(Prec + k) * Pow2(Prec + k) THEN k ELSE SqrtExpo(v, k + 1)

\* np.sqrt of the float a >= 0: the float nearest to sqrt(a)
fsqrt(a) ==
    IF a = 0 THEN 0
    ELSE LET v == a * Unit
             u == Pow2(SqrtExpo(v, 0))
             m == ISqrt(v \div (u * u))
             up == (2 * m + 1) * (2 * m + 1) * u * u < 4 * v
                   \/ ((2 * m + 1) * (2 * m + 1) * u * u = 4 * v /\ m % 2 = 1)
         IN  (IF up THEN m + 1 ELSE m) * u

\* ------------------------------------------- one loop iteration, numerically
SetMin(S) == CHOOSE x \in S : \A y \in S : x <= y
SetMax(S) == CHOOSE x \in S : \A y \in S : y <= x

\* (column.min(), column.max()) of the projected points
extent(points, c) ==
    LET col == {points[i][c] : i \in DOMAIN points}
    IN  <<SetMin(col), SetMax(col)>>

\* (mutant) Python's round() of a float: to the nearest integer, ties to even
py_round(x) ==
    IF x.k = "fin" THEN [ok |-> TRUE, v |-> RoundHalfEven(x.v, Unit)]
    ELSE [ok |-> FALSE, v |-> 0]

\* Python's int() of a float: truncation; inf and nan raise
py_int(x) ==
    IF x.k = "fin" THEN [ok |-> TRUE, v |-> x.v \div Unit]
    ELSE [ok |-> FALSE, v |-> 0]

\* ypx / (yl / xl)
width_quotient(px, xlen, ylen) ==
    fdiv(Fin(px * Unit), fdiv(Fin(ylen), Fin(xlen)))

\* xpx = int(ypx / (yl / xl))
xpx_of(px, xlen, ylen) == py_int(width_quotient(px, xlen, ylen))

\* pd = np.sqrt((xl * yl) / len(projected_points))
pd_of(xlen, ylen, n) ==
    fsqrt(fdiv(Fin(fmul(xlen, ylen)), Fin(n * Unit)).v)

\* (mutant) a length that is not finite yields no edges instead of raising
arange_unchecked(start, stop, step) ==
    LET len == fdiv(Fin(fsub(stop, start)), Fin(step))
        n == (len.v + Unit - 1) \div Unit
        next == fadd(start, step)
        delta == fsub(next, start)
    IN  [ok |-> TRUE,
         v |-> [i \in 1..(IF len.k = "fin" THEN n ELSE 0) |->
                  IF i = 1 THEN start
                  ELSE IF i = 2 THEN next
                  ELSE fadd(start, Rnd((i - 1) * delta, 1))]]

\* np.arange(start, stop, step) for floats, stop >= start, step >= 0:
\* ceil((stop - start) / step) values; the first two are start and
\* start + step, the others start + i * delta with
\* delta = (start + step) - start.  A length of inf or nan raises.
arange(start, stop, step) ==
    LET len == fdiv(Fin(fsub(stop, start)), Fin(step))
        n == (len.v + Unit - 1) \div Unit
        next == fadd(start, step)
        delta == fsub(next, start)
    IN  IF len.k # "fin" THEN [ok |-> FALSE, v |-> <<>>]
        ELSE [ok |-> TRUE,
              v |-> [i \in 1..n |->
                       IF i = 1 THEN start
                       ELSE IF i = 2 THEN next
                       ELSE fadd(start, Rnd((i - 1) * delta, 1))]]

\* np.histogram2d's bin of x among the edges: searchsorted(side='right'),
\* one less for a value on the last edge; 0 and Len(edges) lie outside
bin_of(edges, x) ==
    LET c == Cardinality({i \in DOMAIN edges : edges[i] <= x})
    IN  IF x = edges[Len(edges)] THEN c - 1 ELSE c

\* hist2d: H.T, rows the y bins, columns the x bins; outliers are not tallied
hist2d(points, xbins, ybins) ==
    [rc \in (1..(Len(ybins) - 1)) \X (1..(Len(xbins) - 1)) |->
        Cardinality({i \in DOMAIN points :
                        /\ bin_of(xbins, points[i][1]) = rc[2]
                        /\ bin_of(ybins, points[i][2]) = rc[1]})]

RECURSIVE SumOver(_, _)
SumOver(f, S) ==
    IF S = {} THEN 0
    ELSE LET x == CHOOSE y \in S : TRUE IN f[x] + SumOver(f, S \ {x})

GridSum(arr) == SumOver(arr, DOMAIN arr)

\* --------------------------------------------------------- the input tree
FolderNames == {"Oak", "Pine"}
Entries == {<<"t1", "las">>, <<"t2", "laz">>, <<"notes", "txt">>}
InputPaths == {"missing", "scan.las", "data"}
OutRoot == "out"
Digits == <<"0", "1", "2", "3", "4", "5", "6", "7", "8", "9">>

\* projected coordinates tried, in quanta; x is centred on the highest point
XCoords == {0 - 42, 0, 5}
YCoords == {0, 49, 238}

\* what laspy.read finds in a file: unreadable, or a cloud of n points whose
\* z extent (the projected y extent at every angle, v = (0, 0, 1)) is z
Contents ==
    {[ok |-> FALSE, n |-> 0, z |-> <<0, 0>>],
     [ok |-> TRUE, n |-> 0, z |-> <<0, 0>>],
     [ok |-> TRUE, n |-> 2, z |-> <<49, 49>>],
     [ok |-> TRUE, n |-> 2, z |-> <<0, 238>>]}

\* the projected x extents a cloud of n points can have at one angle
XExtents(n) ==
    IF n < 2 THEN {<<0, 0>>} ELSE {<<0, 0>>, <<0 - 42, 5>>}

\* the order in which the file system lists a directory: arbitrary but fixed
RECURSIVE SetToSeq(_)
SetToSeq(S) ==
    IF S = {} THEN <<>>
    ELSE LET x == CHOOSE y \in S : TRUE IN <<x>> \o SetToSeq(S \ {x})

\* dir.glob('*.' + ext)
Glob(dir, ext) == SetToSeq({e \in dir : e[2] = ext})

\* (mutant) only '*.las' is globbed
las_files_las_only(dir) == Glob(dir, "las")

\* list(dir.glob('*.las')) + list(dir.glob('*.laz'))
las_files(dir) == Glob(dir, "las") \o Glob(dir, "laz")

exists(path) == path # "missing"
is_dir(path) == path = "data"

\* int(sys.argv[3])
parse_int(text) ==
    IF \E d \in DOMAIN Digits : Digits[d] = text
    THEN [ok |-> TRUE, v |-> (CHOOSE d \in DOMAIN Digits : Digits[d] = text) - 1]
    ELSE [ok |-> FALSE, v |-> 0]

\* ------------------------------------------------------------------ state
VARIABLES
    argv,        \* sys.argv
    root,        \* entries directly in the input root
    species,     \* subdirectories of the input root: name -> entries
    pc,          \* position of the main process
    all_tasks,   \* sequence of <<file, output folder>>
    n_workers,   \* <<>> for None, else <<n>>
    queue,       \* indices of all_tasks not yet handed to a worker (Pool.map)
    worker,      \* worker process -> its position in process_file_wrapper
    results,     \* Pool.map's result list: index -> "none" | "True" | "False"
    runs,        \* index -> how many times a worker was handed the task
    raised,      \* <<index, angle position>> at which process_tree raised (0: before the loop)
    degenerate,  \* <<index, angle position>> at which a zero extent was met
    outDirs,     \* output folders created on disk
    written,     \* index -> paths of the images the task has saved, in order
    figs,        \* index -> figures the task opened and has not closed
    summary,     \* <<successful, total>> once logged, else <<>>
    error,       \* the exception that ended the run, "" if none
    exitCode,    \* <<>> while running, else <<code>>
    \* one loop iteration of process_tree, numerically
    points,      \* projected_points
    npc,         \* position in the iteration
    xext, yext, xl, yl, ypx, xpx, pd, xbins, ybins, arr

orchVars == <<argv, root, species, pc, all_tasks, n_workers, queue, worker,
              results, runs, raised, degenerate, outDirs, written, figs,
              summary, error, exitCode>>

numVars == <<points, npc, xext, yext, xl, yl, ypx, xpx, pd, xbins, ybins, arr>>

vars == <<orchVars, numVars>>

\* --------------------------------------------------------- initial states
NumIdle ==
    /\ points = <<>> /\ npc = "off"
    /\ xext = <<>> /\ yext = <<>> /\ xl = 0 /\ yl = 0 /\ ypx = 0 /\ xpx = 0
    /\ pd = 0 /\ xbins = <<>> /\ ybins = <<>> /\ arr = <<>>

OrchIdle ==
    /\ argv = <<>> /\ root = {} /\ species = <<>> /\ pc = "off"
    /\ all_tasks = <<>> /\ n_workers = <<>> /\ queue = {} /\ worker = <<>>
    /\ results = <<>> /\ runs = <<>> /\ raised = {} /\ degenerate = {}
    /\ outDirs = {} /\ written = <<>> /\ figs = <<>> /\ summary = <<>>
    /\ error = "" /\ exitCode = <<>>

TreeSize ==
    Cardinality(root)
    + Cardinality({fe \in (DOMAIN species) \X Entries : fe[2] \in species[fe[1]]})

CommandLines ==
    {<<"TreeProjection.py", "data">>}
    \cup {<<"TreeProjection.py", p, OutRoot>> : p \in InputPaths}
    \cup {<<"TreeProjection.py", p, OutRoot, t>> :
            p \in InputPaths,
            t \in {"four"} \cup {Digits[k + 1] : k \in 0..(MaxWorkers - 1)}}

InitRun ==
    /\ argv \in CommandLines
    /\ root \in SUBSET Entries
    /\ \E S \in SUBSET FolderNames : species \in [S -> SUBSET Entries]
    \* what lies under "data" matters only to a run that is given "data"
    /\ (Len(argv) < 3 \/ argv[2] # "data") => (root = {} /\ DOMAIN species = {})
    /\ pc = "start"
    /\ all_tasks = <<>> /\ n_workers = <<>> /\ queue = {} /\ worker = <<>>
    /\ results = <<>> /\ runs = <<>> /\ raised = {} /\ degenerate = {}
    /\ outDirs = {} /\ written = <<>> /\ figs = <<>> /\ summary = <<>>
    /\ error = "" /\ exitCode = <<>>
    /\ NumIdle

\* ------------------------------------------------------------ __main__
\* (mutant) the error is logged and the script ends normally
Exit1_logged_only(exc) ==
    /\ pc' = "exit" /\ error' = exc /\ exitCode' = <<0>>

\* sys.exit(1), or an exception reaching the top level of the script
Exit1(exc) ==
    /\ pc' = "exit" /\ error' = exc /\ exitCode' = <<1>>

\* the command line block up to the call of main
Start ==
    /\ pc = "start"
    /\ IF Len(argv) < 3 THEN
           Exit1("usage") /\ UNCHANGED n_workers
       ELSE IF Len(argv) > 3 /\ ~parse_int(argv[4]).ok THEN
           Exit1("ValueError") /\ UNCHANGED n_workers
       ELSE
           /\ n_workers' = IF Len(argv) > 3 THEN <<parse_int(argv[4]).v>> ELSE <<>>
           /\ pc' = "main"
           /\ UNCHANGED <<error, exitCode>>
    /\ UNCHANGED <<argv, root, species, all_tasks, queue, worker, results, runs,
                   raised, degenerate, outDirs, written, figs, summary, numVars>>

\* multiprocessing.cpu_count() on the host
cpu_count == MaxWorkers

\* main: validation of the input path, default of n_workers
Main_Validate ==
    /\ pc = "main"
    /\ IF ~exists(argv[2]) THEN
           Exit1("FileNotFoundError") /\ UNCHANGED n_workers
       ELSE IF ~is_dir(argv[2]) THEN
           Exit1("NotADirectoryError") /\ UNCHANGED n_workers
       ELSE
           /\ n_workers' = IF n_workers = <<>> THEN <<cpu_count>> ELSE n_workers
           /\ pc' = "discover"
           /\ UNCHANGED <<error, exitCode>>
    /\ UNCHANGED <<argv, root, species, all_tasks, queue, worker, results, runs,
                   raised, degenerate, outDirs, written, figs, summary, numVars>>

\* the tasks of the species folders, in listing order
RECURSIVE species_tasks(_)
species_tasks(folders) ==
    IF folders = <<>> THEN <<>>
    ELSE LET species_folder == Head(folders)
             files == las_files(species[species_folder])
         IN  [i \in 1..Len(files) |->
                 <<<<species_folder, files[i]>>, <<OutRoot, species_folder>>>>]
             \o species_tasks(Tail(folders))

\* the tasks of the files directly in the input root
flat_tasks ==
    LET files == las_files(root)
    IN  [i \in 1..Len(files) |-> <<<<"", files[i]>>, <<OutRoot>>>>]

\* the task list main collects
collect_tasks ==
    LET species_folders == SetToSeq(DOMAIN species)
    IN  IF species_folders = <<>> THEN flat_tasks
        ELSE species_tasks(species_folders)

\* (mutant) the emptiness check of the task list left out
no_tasks_unchecked(tasks) == FALSE

\* if not all_tasks
no_tasks(tasks) == tasks = <<>>

\* main: discovery.  Without subdirectories an input root without
\* point-cloud files raises at once; in every case an empty task list raises
Main_Discover ==
    /\ pc = "discover"
    /\ all_tasks' = collect_tasks
    /\ IF DOMAIN species = {} /\ las_files(root) = <<>> THEN Exit1("FileNotFoundError")
       ELSE IF no_tasks(all_tasks') THEN Exit1("FileNotFoundError")
       ELSE pc' = "pool" /\ UNCHANGED <<error, exitCode>>
    /\ UNCHANGED <<argv, root, species, n_workers, queue, worker, results, runs,
                   raised, degenerate, outDirs, written, figs, summary, numVars>>

\* with Pool(n_workers) as pool: pool.map(process_file_wrapper, all_tasks)
Pool_Start ==
    /\ pc = "pool"
    /\ IF n_workers[1] < 1 THEN
           /\ Exit1("ValueError")
           /\ UNCHANGED <<queue, worker, results, runs, written, figs>>
       ELSE
           /\ pc' = "map"
           /\ queue' = DOMAIN all_tasks
           /\ worker' = [w \in 1..n_workers[1] |->
                           [pc |-> "idle", task |-> 0, i |-> 0, n |-> 0, z |-> <<0, 0>>]]
           /\ results' = [t \in DOMAIN all_tasks |-> "none"]
           /\ runs' = [t \in DOMAIN all_tasks |-> 0]
           /\ written' = [t \in DOMAIN all_tasks |-> <<>>]
           /\ figs' = [t \in DOMAIN all_tasks |-> 0]
           /\ UNCHANGED <<error, exitCode>>
    /\ UNCHANGED <<argv, root, species, all_tasks, n_workers, raised, degenerate,
                   outDirs, summary, numVars>>

\* an idle worker process takes the next task of the map
take_from(q, t) == q \ {t}

Worker_Take(w) ==
    /\ pc = "map"
    /\ worker[w].pc = "idle"
    /\ queue # {}
    /\ LET t == SetMin(queue)
       IN  /\ queue' = take_from(queue, t)
           /\ worker' = [worker EXCEPT ![w] = [@ EXCEPT !.pc = "open", !.task = t]]
           /\ runs' = [runs EXCEPT ![t] = @ + 1]
    /\ UNCHANGED <<argv, root, species, pc, all_tasks, n_workers, results, raised,
                   degenerate, outDirs, written, figs, summary, error, exitCode,
                   numVars>>

\* (mutant) the except clause returns True as well
wrapper_result_true(exc) == "True"

\* what process_file_wrapper returns: True after process_tree, False from
\* the except clause
wrapper_result(exc) == IF exc THEN "False" ELSE "True"

idle == [pc |-> "idle", task |-> 0, i |-> 0, n |-> 0, z |-> <<0, 0>>]

\* process_tree raises in worker w: the except clause of the wrapper logs
\* the error and returns, and the worker is free again
Wrapper_Except(w, t, i) ==
    /\ raised' = raised \cup {<<t, i>>}
    /\ results' = [results EXCEPT ![t] = wrapper_result(TRUE)]
    /\ worker' = [worker EXCEPT ![w] = idle]

\* process_tree up to the loop: mkdir of the output folder, laspy.read,
\* las2numpy, offset (argmax of an empty cloud raises)
PT_Open(w) ==
    /\ pc = "map"
    /\ worker[w].pc = "open"
    /\ LET t == worker[w].task
       IN  \E las \in Contents :
             /\ outDirs' = outDirs \cup {all_tasks[t][2]}
             /\ IF ~las.ok \/ las.n = 0 THEN
                    Wrapper_Except(w, t, 0)
                ELSE
                    /\ worker' = [worker EXCEPT ![w] =
                                    [@ EXCEPT !.pc = "loop", !.i = 1, !.n = las.n, !.z = las.z]]
                    /\ UNCHANGED <<raised, results>>
    /\ UNCHANGED <<argv, root, species, pc, all_tasks, n_workers, queue,
                   runs, degenerate, written, figs, summary, error, exitCode,
                   numVars>>

\* whether the numeric part of one iteration (extents to log) raises
core_raises(xe, ye, n) ==
    LET xlen == fsub(xe[2], xe[1])
        ylen == fsub(ye[2], ye[1])
        step == pd_of(xlen, ylen, n)
    IN  \/ ~xpx_of(1000, xlen, ylen).ok
        \/ ~arange(xe[1], fadd(xe[2], step), step).ok
        \/ ~arange(ye[1], fadd(ye[2], step), step).ok

\* core_raises for the extents and sizes of the clouds of the input tree
iteration_raises ==
    [xe \in UNION {XExtents(c.n) : c \in Contents},
     ye \in {c.z : c \in Contents},
     n \in {c.n : c \in Contents} |-> core_raises(xe, ye, n)]

\* the figures of a task after plt.close(fig) of the one just saved
close_fig(open) == open - 1

\* (mutant) the angle is left out of the file name
filepath_no_angle(input_file, output_folder, angle) ==
    <<output_folder, input_file[2][1], 0>>

\* output_folder / f"{filename}_{angle}.png", filename the stem of the input
filepath(input_file, output_folder, angle) ==
    <<output_folder, input_file[2][1], angle>>

\* one iteration of the loop over the angles; after the last one
\* process_tree logs and the wrapper returns True
PT_Angle(w) ==
    /\ pc = "map"
    /\ worker[w].pc = "loop"
    /\ LET t == worker[w].task
           i == worker[w].i
       IN  \E xe \in XExtents(worker[w].n), drawn \in BOOLEAN :
             /\ degenerate' =
                    IF xe[2] = xe[1] \/ worker[w].z[2] = worker[w].z[1]
                    THEN degenerate \cup {<<t, i>>} ELSE degenerate
             /\ IF iteration_raises[xe, worker[w].z, worker[w].n] THEN
                    \* raised before plt.subplots
                    /\ Wrapper_Except(w, t, i)
                    /\ UNCHANGED <<written, figs>>
                ELSE IF ~drawn THEN
                    \* plt.subplots opened a figure; imshow or savefig raised
                    /\ figs' = [figs EXCEPT ![t] = @ + 1]
                    /\ Wrapper_Except(w, t, i)
                    /\ UNCHANGED written
                ELSE
                    \* figure opened, image saved, figure closed
                    /\ figs' = [figs EXCEPT ![t] = close_fig(@ + 1)]
                    /\ written' = [written EXCEPT ![t] =
                          Append(@, filepath(all_tasks[t][1], all_tasks[t][2], Angles[i]))]
                    /\ IF i = Len(Angles) THEN
                           /\ results' = [results EXCEPT ![t] = wrapper_result(FALSE)]
                           /\ worker' = [worker EXCEPT ![w] = idle]
                       ELSE
                           /\ worker' = [worker EXCEPT ![w] = [@ EXCEPT !.i = i + 1]]
                           /\ UNCHANGED results
                    /\ UNCHANGED raised
    /\ UNCHANGED <<argv, root, species, pc, all_tasks, n_workers, queue,
                   runs, outDirs, summary, error, exitCode, numVars>>

\* (mutant) the map returns with the first result
map_returned_any(res) == \E t \in DOMAIN res : res[t] # "none"

\* pool.map has every result
map_returned(res) == \A t \in DOMAIN res : res[t] # "none"

\* successful = sum(results); the summary line; the script ends
Main_Summary ==
    /\ pc = "map"
    /\ map_returned(results)
    /\ summary' = <<Cardinality({t \in DOMAIN results : results[t] = "True"}),
                    Len(all_tasks)>>
    /\ pc' = "exit"
    /\ exitCode' = <<0>>
    /\ UNCHANGED <<argv, root, species, all_tasks, n_workers, queue, worker,
                   results, runs, raised, degenerate, outDirs, written, figs,
                   error, numVars>>

Next ==
    \/ Start
    \/ Main_Validate
    \/ Main_Discover
    \/ Pool_Start
    \/ \E w \in DOMAIN worker : Worker_Take(w)
    \/ \E w \in DOMAIN worker : PT_Open(w)
    \/ \E w \in DOMAIN worker : PT_Angle(w)
    \/ Main_Summary

\* a whole run, over every input tree that yields at most MaxTasks tasks
Init ==
    /\ InitRun
    /\ TreeSize <= MaxEntries
    /\ Len(collect_tasks) <= MaxTasks

Spec == Init /\ [][Next]_vars

\* discovery alone, over every input tree
DiscInit == InitRun /\ TreeSize <= MaxEntries

DiscNext == Start \/ Main_Validate \/ Main_Discover

DiscSpec == DiscInit /\ [][DiscNext]_vars

\* every process that can take a step eventually takes one
FairSpec == Spec /\ WF_vars(Next)

\* ------------------------- one loop iteration of process_tree, numerically
ProjectedPoints == XCoords \X YCoords

PointSets ==
    UNION {[1..n -> ProjectedPoints] : n \in 1..MaxPoints}

NumInit ==
    /\ OrchIdle
    /\ points \in PointSets
    /\ npc = "extent"
    /\ xext = <<>> /\ yext = <<>> /\ xl = 0 /\ yl = 0 /\ ypx = 0 /\ xpx = 0
    /\ pd = 0 /\ xbins = <<>> /\ ybins = <<>> /\ arr = <<>>

\* xext, yext, xl, yl
Extents ==
    /\ npc = "extent"
    /\ xext' = extent(points, 1)
    /\ yext' = extent(points, 2)
    /\ xl' = fsub(xext'[2], xext'[1])
    /\ yl' = fsub(yext'[2], yext'[1])
    /\ npc' = "aspect"
    /\ UNCHANGED <<orchVars, points, ypx, xpx, pd, xbins, ybins, arr>>

\* ypx = 1000; xpx = int(ypx / (yl / xl))
Aspect ==
    /\ npc = "aspect"
    /\ ypx' = 1000
    /\ LET w == xpx_of(ypx', xl, yl)
       IN  IF w.ok THEN xpx' = w.v /\ npc' = "density"
           ELSE xpx' = xpx /\ npc' = "raised"
    /\ UNCHANGED <<orchVars, points, xext, yext, xl, yl, pd, xbins, ybins, arr>>

\* pd
Density ==
    /\ npc = "density"
    /\ pd' = pd_of(xl, yl, Len(points))
    /\ npc' = "bins"
    /\ UNCHANGED <<orchVars, points, xext, yext, xl, yl, ypx, xpx, xbins, ybins, arr>>

\* xbins, ybins
Bins ==
    /\ npc = "bins"
    /\ LET xb == arange(xext[1], fadd(xext[2], pd), pd)
           yb == arange(yext[1], fadd(yext[2], pd), pd)
       IN  IF xb.ok /\ yb.ok
           THEN xbins' = xb.v /\ ybins' = yb.v /\ npc' = "hist"
           ELSE UNCHANGED <<xbins, ybins>> /\ npc' = "raised"
    /\ UNCHANGED <<orchVars, points, xext, yext, xl, yl, ypx, xpx, pd, arr>>

\* arr = hist2d(projected_points, xbins, ybins)
Histogram ==
    /\ npc = "hist"
    /\ arr' = hist2d(points, xbins, ybins)
    /\ npc' = "log"
    /\ UNCHANGED <<orchVars, points, xext, yext, xl, yl, ypx, xpx, pd, xbins, ybins>>

NumNext == Extents \/ Aspect \/ Density \/ Bins \/ Histogram

NumSpec == NumInit /\ [][NumNext]_vars

\* ================================================================ claims
Raised == {ti[1] : ti \in raised}

MainCalled == Len(argv) >= 3 /\ (Len(argv) > 3 => parse_int(argv[4]).ok)

\* the point-cloud files the applicable discovery strategy finds
PointCloud(e) == e[2] \in {"las", "laz"}

ExpectedTasks ==
    IF DOMAIN species # {}
    THEN {<<<<fe[1], fe[2]>>, <<OutRoot, fe[1]>>>> :
            fe \in {x \in (DOMAIN species) \X Entries : x[2] \in species[x[1]] /\ PointCloud(x[2])}}
    ELSE {<<<<"", e>>, <<OutRoot>>>> : e \in {x \in root : PointCloud(x)}}

InputValid ==
    /\ Len(argv) >= 3
    /\ argv[2] = "data"
    /\ ExpectedTasks # {}

Range(f) == {f[x] : x \in DOMAIN f}

IsPrefix(p, q) == Len(p) <= Len(q) /\ p = SubSeq(q, 1, Len(p))

\* the image paths of the first k angles of the claim's list for task t
AngleList == <<0, 45, 90, 135>>

ImagesOf(t, k) ==
    [j \in 1..k |-> <<all_tasks[t][2], all_tasks[t][1][2][1], AngleList[j]>>]

\* C1: every exception of process_tree is caught in process_file_wrapper
\* (the task's result is False and the run does not end with an error), and
\* a run that reaches its end has run every task once and has logged
\* successful = the number of tasks that did not raise, total = the length
\* of the task list.
C1_SummaryCounts ==
    /\ \A t \in Raised : results[t] = "False"
    /\ Raised # {} => error = ""
    /\ (pc = "exit" /\ error = "") =>
          /\ \A t \in DOMAIN all_tasks : results[t] # "none" /\ runs[t] = 1
          /\ summary = <<Cardinality((DOMAIN all_tasks) \ Raised), Len(all_tasks)>>

\* a finished run of two tasks of which exactly one raised
C1_Witness ==
    /\ pc = "exit" /\ Len(all_tasks) = 2
    /\ Cardinality(Raised) = 1
    /\ summary = <<1, 2>>

\* C2: a finished run has exit code 0 exactly when no exception ended it;
\* it has 0 when the input is valid and the pool size is at least 1,
\* however many tasks failed, and 1 when the input is not valid.
C2_ExitCode ==
    pc = "exit" =>
        /\ exitCode = <<0>> <=> error = ""
        /\ exitCode \in {<<0>>, <<1>>}
        /\ (MainCalled /\ InputValid /\ n_workers[1] >= 1) => exitCode = <<0>>
        /\ ~InputValid => exitCode = <<1>>

\* a run in which every one of two tasks failed and that ended with code 0
C2_Witness ==
    /\ pc = "exit" /\ exitCode = <<0>>
    /\ Len(all_tasks) = 2 /\ Raised = DOMAIN all_tasks

\* C3: when the input root does not exist, is not a directory or holds no
\* point-cloud file to discover, no pool is created, no task is handed to a
\* worker, and no output folder and no image is created; the run ends with
\* FileNotFoundError or NotADirectoryError.
C3_NothingRuns ==
    (MainCalled /\ ~InputValid) =>
        /\ pc \notin {"pool", "map"}
        /\ worker = <<>> /\ runs = <<>> /\ results = <<>>
        /\ outDirs = {} /\ written = <<>> /\ summary = <<>>
        /\ pc = "exit" => error \in {"FileNotFoundError", "NotADirectoryError"}

\* a run on an input root with subdirectories and no point-cloud file ended
C3_Witness ==
    /\ pc = "exit" /\ MainCalled /\ argv[2] = "data"
    /\ DOMAIN species # {} /\ error = "FileNotFoundError"

\* no task is handed out twice, in progress twice or finished without
\* having been handed out; the summary comes after every result
OnceEach ==
    /\ \A t \in DOMAIN runs :
          /\ runs[t] <= 1
          /\ (results[t] # "none" => runs[t] = 1)
          /\ Cardinality({w \in DOMAIN worker : worker[w].task = t}) <= 1
          /\ (worker # <<>> /\ runs[t] = 1 /\ results[t] = "none")
                => \E w \in DOMAIN worker : worker[w].task = t
    /\ summary # <<>> =>
          /\ \A t \in DOMAIN all_tasks : results[t] # "none" /\ runs[t] = 1
          /\ \A w \in DOMAIN worker : worker[w].pc = "idle"

\* C4: every task is processed by exactly one worker exactly once, the
\* summary is logged only after every task has completed, and once the map
\* has started the summary is eventually logged.
C4_OnceAndJoin ==
    /\ []OnceEach
    /\ (pc = "map") ~> (summary # <<>>)

\* two workers, two tasks, summary logged
C4_Witness ==
    /\ summary # <<>> /\ Len(all_tasks) = 2 /\ n_workers = <<2>>
    /\ \A t \in DOMAIN all_tasks : runs[t] = 1

\* C5: once process_file_wrapper has returned for a task, no figure the
\* task opened is still open.
C5_FiguresClosed ==
    \A t \in DOMAIN results : results[t] # "none" => figs[t] = 0

\* C7: the task list holds exactly one task per point-cloud file of every
\* subdirectory, with output folder <output root>/<subdirectory>, when the
\* root has subdirectories, and one per point-cloud file of the root, with
\* output folder the output root, when it has none; discovery fails with
\* FileNotFoundError exactly when that list is empty.
C7_Discovery ==
    (MainCalled /\ argv[2] = "data" /\ pc \in {"pool", "exit"}) =>
        /\ error = "FileNotFoundError" <=> ExpectedTasks = {}
        /\ error = "" =>
              /\ Range(all_tasks) = ExpectedTasks
              /\ Len(all_tasks) = Cardinality(ExpectedTasks)

\* two subdirectories with one point-cloud file each, and a point-cloud
\* file in the root that is not a task
C7_Witness ==
    /\ pc = "pool" /\ DOMAIN species = FolderNames
    /\ Len(all_tasks) = 2
    /\ \E e \in root : PointCloud(e)
    /\ \E t \in DOMAIN all_tasks : all_tasks[t][1][2][2] = "laz"

\* C8: a task that meets a projected extent of zero width or zero height at
\* an angle raises there: it has saved the images of the earlier angles
\* only, its result is False, and the run still runs every task and ends
\* with its summary.
C8_DegenerateRaises ==
    /\ \A ti \in degenerate :
          /\ ti \in raised
          /\ results[ti[1]] = "False"
          /\ Len(written[ti[1]]) = ti[2] - 1
    /\ (pc = "exit" /\ degenerate # {}) =>
          /\ \A t \in DOMAIN all_tasks : results[t] # "none" /\ runs[t] = 1
          /\ summary # <<>> /\ summary[2] = Len(all_tasks)

\* one task met a zero extent at its second angle, another one succeeded
C8_Witness ==
    /\ pc = "exit"
    /\ \E ti \in degenerate : ti[2] = 2
    /\ \E t \in DOMAIN results : results[t] = "True"

ImagesArePrefix ==
    /\ \A t \in DOMAIN written :
          /\ Len(written[t]) <= Len(AngleList)
          /\ written[t] = ImagesOf(t, Len(written[t]))
          /\ results[t] = "True" => Len(written[t]) = Len(AngleList)
    /\ \A ti \in raised :
          written[ti[1]] = ImagesOf(ti[1], IF ti[2] = 0 THEN 0 ELSE ti[2] - 1)

ImagesKept ==
    \A t \in DOMAIN written : IsPrefix(written[t], written'[t])

\* C9: the images a task has saved are at every moment those of a prefix of
\* the angle list 0, 45, 90, 135, named <output folder>/<stem>_<angle>.png; a
\* successful task has saved all four; a task that raised at an angle has
\* saved those of the earlier angles and no other; no step removes an image.
C9_ImagePrefix ==
    /\ []ImagesArePrefix
    /\ [][ImagesKept]_vars

\* a task failed at its third angle with two images saved, run finished
C9_Witness ==
    /\ pc = "exit"
    /\ \E ti \in raised : ti[2] = 3 /\ Len(written[ti[1]]) = 2

\* ---------------------------------------------------------------- numeric
Computed == npc \in {"density", "bins", "hist", "log"}

Quotient == width_quotient(1000, xl, yl)

Enclosed ==
    \A i \in DOMAIN points :
        /\ xbins[1] <= points[i][1] /\ points[i][1] <= xbins[Len(xbins)]
        /\ ybins[1] <= points[i][2] /\ points[i][2] <= ybins[Len(ybins)]

\* C6: for a projected point set of non-zero x range and y range the bin
\* edges enclose every point and the cells of the density grid sum to the
\* number of points.
C6_AllCounted ==
    (npc = "log" /\ xl # 0 /\ yl # 0) =>
        /\ Enclosed
        /\ GridSum(arr) = Len(points)

\* C10 as stated: the width is the integer nearest to the quotient
\* 1000 / (yl / xl), the height 1000.
C10_Rounded ==
    (Computed /\ xl # 0 /\ yl # 0) =>
        /\ ypx = 1000
        /\ 2 * xpx * Unit <= 2 * Quotient.v + Unit
        /\ 2 * Quotient.v <= 2 * xpx * Unit + Unit

\* C10 as amended: the width is the integer part of the quotient
\* 1000 / (yl / xl): xpx <= quotient < xpx + 1; the height is 1000.
C10_Truncated ==
    (Computed /\ xl # 0 /\ yl # 0) =>
        /\ ypx = 1000
        /\ Quotient.k = "fin"
        /\ xpx * Unit <= Quotient.v
        /\ Quotient.v < (xpx + 1) * Unit

\* a width whose quotient has a fractional part above one half
C10_Witness ==
    /\ npc = "log" /\ xl # 0 /\ yl # 0
    /\ 2 * (Quotient.v - xpx * Unit) > Unit

====
